---- MODULE Spec2Model ----
(***************************************************************************)
(* QuickShare game arena: the match-making endpoint (POST /api/matches),   *)
(* the make_move adjudication cycle (handleGameMove), the four rule        *)
(* engines and the settlement (updateUserAfterGame) of server/routes.ts,   *)
(* over the in-memory repository MemStorage.                               *)
(*                                                                         *)
(* Every handler is an async function.  Each `await storage.X(...)` is a   *)
(* point where another handler may run: the repository operation itself    *)
(* takes effect when it is called, and the code after the await runs in a  *)
(* later step.  One action of the model is the code between two awaits.    *)
(* Money is counted in cents.  The users exist from the start (each with   *)
(* the balance and the statistics createUser gives).                       *)
(*                                                                         *)
(* The n-th WebSocket connection creates the n-th user, so a connection is *)
(* named by the id of its user.  inbox holds, per connection, what the     *)
(* server wrote to its socket, in order; of a message the model keeps the  *)
(* type and the fields below, and the match it was sent for.               *)
(***************************************************************************)
EXTENDS Integers, Sequences, FiniteSets, TLC

\* ------------------------------------------------------------------ bounds
NumPlayers == 3
\* matches and moves the repository holds at most
MaxMatches == 3
MaxMoves == 3
\* handlers in flight at the same time
MaxProcs == 2
\* the caps of the specification Spec (one match through its whole life)
LifeMatches == 1
LifeMoves == 2

Players == 1..NumPlayers
Procs == 1..MaxProcs
\* a null id (player2Id: null, winnerId: null, currentPlayer: null)
Null == 0

\* the stakes requested through the endpoint, in cents ("10" and "25")
Stakes == {1000, 2500}
\* the balance createUser gives a new user ("1337.50"), in cents
InitialBalance == 133750

VARIABLES
  matches,      \* MemStorage.matches, in insertion order; a match's id is its index
  moves,        \* MemStorage.moves: per match id, its moves in insertion order
  users,        \* MemStorage.users: the balance of every user, in cents
  transactions, \* MemStorage.transactions: per user id, the rows in insertion order
  stats,        \* MemStorage.stats
  userMatches,  \* userMatches: userId -> matchId (Null when absent)
  procs,        \* the handlers in flight: position and local variables of each
  responses,    \* per player, the match res.json answered last (id Null: none yet)
  settleRuns,   \* per match, how often handleGameMove entered its settlement block
  connectedClients, \* connectedClients: the connection ids that have a socket
  userConnections,  \* userConnections: userId -> connectionId (Null when absent)
  connectionUsers,  \* connectionUsers: connectionId -> userId (Null when absent)
  readyState,   \* per connection, the readyState of its socket
  inbox,        \* per connection, the messages written to its socket, in order
  timers,       \* per match, the callbacks setTimeout(..., 100) has queued, in order
  aborted       \* the make_move cycles that ended in the catch block of line 366

vars == <<matches, moves, users, transactions, stats, userMatches, procs,
          responses, settleRuns, connectedClients, userConnections,
          connectionUsers, readyState, inbox, timers, aborted>>

storeVars == <<matches, moves, users, transactions, stats>>

chanVars == <<connectedClients, userConnections, connectionUsers, readyState>>

Idle == [kind |-> "idle", pc |-> "idle"]

\* ------------------------------------------------------------- messages
\* lines 374-380 and 335-338: does a message for userId reach a socket?
CanReceive(userId) ==
  /\ userConnections[userId] # Null
  /\ userConnections[userId] \in connectedClients
  /\ readyState[userConnections[userId]] = "OPEN"

\* client.send: the message is written to the sockets of the recipients
Deliver(box, recipients, message) ==
  [c \in DOMAIN box |->
     IF \E u \in recipients : userConnections[u] = c
     THEN Append(box[c], message) ELSE box[c]]

\* broadcastToMatch, lines 371-383, over the current-match entries um
broadcastToMatch(box, um, matchId, message) ==
  Deliver(box, {u \in DOMAIN um : um[u] = matchId /\ CanReceive(u)}, message)

\* the currentPlayer of a game state (absent in the empty state of line 463)
CurrentPlayer(gameState) ==
  IF "currentPlayer" \in DOMAIN gameState THEN gameState.currentPlayer ELSE Null

\* lines 139-143, 148-152, 310-314 and 339-345: the messages
MatchFound(matchId) == [type |-> "match_found", matchId |-> matchId]
GameUpdate(matchId, gameState, moveNumber) ==
  [type |-> "game_update", matchId |-> matchId,
   currentPlayer |-> CurrentPlayer(gameState), moveNumber |-> moveNumber]
GameResult(matchId, userId, winnerId) ==
  [type |-> "game_result", matchId |-> matchId,
   result |-> IF winnerId = userId THEN "win" ELSE IF winnerId # Null THEN "lose" ELSE "draw",
   winnerId |-> winnerId]

\* lines 333-364: the result goes to participant one, then to participant two
SendResults(box, match, winnerId) ==
  LET one == IF match.player1Id # Null /\ CanReceive(match.player1Id)
             THEN Deliver(box, {match.player1Id},
                          GameResult(match.id, match.player1Id, winnerId))
             ELSE box
  IN IF match.player2Id # Null /\ CanReceive(match.player2Id)
     THEN Deliver(one, {match.player2Id},
                  GameResult(match.id, match.player2Id, winnerId))
     ELSE one

\* ------------------------------------------------------------- MemStorage
\* createMatch: the record stored for a new waiting match
NewMatch(id, gameType, stake, player1Id) ==
  [id |-> id, gameType |-> gameType, stake |-> stake, player1Id |-> player1Id,
   player2Id |-> Null, state |-> "waiting", winnerId |-> Null,
   gameData |-> [tag |-> "null"]]

\* getWaitingMatches: the waiting matches of a (gameType, stake) pair, in map order
getWaitingMatches(gameType, stake) ==
  SelectSeq(matches, LAMBDA m : /\ m.gameType = gameType
                                /\ m.stake = stake
                                /\ m.state = "waiting"
                                /\ m.player2Id = Null)

\* getMatchMoves: the moves of a match sorted by moveNumber (a stable sort of the
\* insertion order).  A move number never exceeds the number of moves stored: it
\* is one more than the length of a log read before the move was stored.
RECURSIVE SortedFrom(_, _)
SortedFrom(ms, n) ==
  IF n > Len(ms) THEN <<>>
  ELSE SelectSeq(ms, LAMBDA m : m.moveNumber = n) \o SortedFrom(ms, n + 1)

getMatchMoves(matchId) == SortedFrom(moves[matchId], 1)

\* the number of moves stored, over all matches
RECURSIVE StoredMoves(_)
StoredMoves(n) == IF n = 0 THEN 0 ELSE Len(moves[n]) + StoredMoves(n - 1)

\* ------------------------------------------------- createInitialGameState
\* the word list of lines 411 and 608
words == {"BLOCKCHAIN", "CRYPTOCURRENCY", "ARCADE", "RETRO", "GAMING", "PIXEL", "NEON"}

\* the letters of the words of lines 411 and 608
WordLetters(word) ==
  CASE word = "BLOCKCHAIN" -> <<"B", "L", "O", "C", "K", "C", "H", "A", "I", "N">>
    [] word = "CRYPTOCURRENCY" ->
         <<"C", "R", "Y", "P", "T", "O", "C", "U", "R", "R", "E", "N", "C", "Y">>
    [] word = "ARCADE" -> <<"A", "R", "C", "A", "D", "E">>
    [] word = "RETRO" -> <<"R", "E", "T", "R", "O">>
    [] word = "GAMING" -> <<"G", "A", "M", "I", "N", "G">>
    [] word = "PIXEL" -> <<"P", "I", "X", "E", "L">>
    [] word = "NEON" -> <<"N", "E", "O", "N">>

\* the count a sticks match starts from
SticksStart == 21

\* createInitialGameState, lines 387-428 (the declaration inside registerRoutes,
\* which hides the one of lines 27-68); word is the word line 412 draws
createInitialGameState(gameType, player1Id, player2Id, word) ==
  CASE gameType = "rps" ->
         [tag |-> "rps", moves |-> <<>>, result |-> "null", currentPlayer |-> Null]
    [] gameType = "tictactoe" ->
         [tag |-> "tictactoe", board |-> [i \in 0..8 |-> "_"],
          currentPlayer |-> player2Id, winner |-> "_"]
    [] gameType = "sticks" ->
         [tag |-> "sticks", sticks |-> SticksStart, isNaN |-> FALSE,
          currentPlayer |-> player2Id, lastPlayer |-> Null]
    [] gameType = "hangman" ->
         [tag |-> "hangman", word |-> word, guessedLetters |-> <<>>,
          wrongGuesses |-> 0, currentPlayer |-> player2Id,
          displayWord |-> [n \in 1..Len(WordLetters(word)) |-> "_"],
          gameOver |-> FALSE, won |-> FALSE, lost |-> FALSE]
    [] OTHER -> [tag |-> "empty"]

\* --------------------------------------------------- POST /api/matches
\* a request that creates a match only when it found no waiting match at all
WillCreate_IgnoresOwner(waiting, playerId) == Len(waiting) = 0

\* Will this request create a match (it found no waiting match, or its own first)?
WillCreate(waiting, playerId) ==
  Len(waiting) = 0 \/ waiting[1].player1Id = playerId

\* the requests in flight that are still to create their match
PendingCreates ==
  Cardinality({h \in Procs : /\ procs[h].kind = "match"
                             /\ procs[h].pc = "gotWaiting"
                             /\ WillCreate(procs[h].waitingMatches, procs[h].playerId)})

\* a join that assigns participant-two and leaves the state as it was
PairInto_KeepsState(stored, playerId, initialGameState) ==
  [stored EXCEPT !.player2Id = playerId, !.gameData = initialGameState]

\* lines 130-134 with updateMatch: the stored record after a join
PairInto(stored, playerId, initialGameState) ==
  [stored EXCEPT !.player2Id = playerId,
                 !.state = "in_progress",
                 !.gameData = initialGameState]

\* lines 103-107: read the body, call getWaitingMatches
PostMatches(h, GameTypes, StakeSet, matchCap) ==
  /\ procs[h].pc = "idle"
  /\ \E gameType \in GameTypes, stake \in StakeSet, playerId \in Players :
       LET waiting == getWaitingMatches(gameType, stake) IN
       /\ WillCreate(waiting, playerId) => Len(matches) + PendingCreates < matchCap
       /\ procs' = [procs EXCEPT ![h] =
            [kind |-> "match", pc |-> "gotWaiting", gameType |-> gameType,
             stake |-> stake, playerId |-> playerId, waitingMatches |-> waiting]]
  /\ UNCHANGED <<storeVars, userMatches, responses, settleRuns, chanVars, inbox,
                 timers, aborted>>

\* lines 109-134 and 156-163: choose the branch and call createMatch or updateMatch
PostMatchesStore(h, WordSet) ==
  /\ procs[h].kind = "match" /\ procs[h].pc = "gotWaiting"
  /\ LET p == procs[h]
         waiting == p.waitingMatches
     IN
     IF WillCreate(waiting, p.playerId)
     THEN LET newMatch == NewMatch(Len(matches) + 1, p.gameType, p.stake, p.playerId) IN
          /\ matches' = Append(matches, newMatch)
          /\ procs' = [procs EXCEPT ![h] =
               [kind |-> "match", pc |-> "created", playerId |-> p.playerId,
                waitingMatches |-> waiting, newMatch |-> newMatch]]
     ELSE LET match == waiting[1] IN
          \E word \in (IF p.gameType = "hangman" THEN WordSet ELSE {"-"}) :
            LET initialGameState ==
                  createInitialGameState(p.gameType, match.player1Id, p.playerId, word)
                updatedMatch == PairInto(matches[match.id], p.playerId, initialGameState)
            IN
            /\ matches' = [matches EXCEPT ![match.id] = updatedMatch]
            /\ procs' = [procs EXCEPT ![h] =
                 [kind |-> "match", pc |-> "updated", playerId |-> p.playerId,
                  match |-> match, updatedMatch |-> updatedMatch]]
  /\ UNCHANGED <<moves, users, transactions, stats, userMatches, responses,
                 settleRuns, chanVars, inbox, timers, aborted>>

\* lines 122-124 and 165-166: record the player's match and answer with the new match
PostMatchesCreated(h) ==
  /\ procs[h].kind = "match" /\ procs[h].pc = "created"
  /\ userMatches' = [userMatches EXCEPT ![procs[h].playerId] = procs[h].newMatch.id]
  /\ responses' = [responses EXCEPT ![procs[h].playerId] = procs[h].newMatch]
  /\ procs' = [procs EXCEPT ![h] = Idle]
  /\ UNCHANGED <<storeVars, settleRuns, chanVars, inbox, timers, aborted>>

\* lines 136-155: record the player's match and answer with the updated match
PostMatchesJoined(h) ==
  /\ procs[h].kind = "match" /\ procs[h].pc = "updated"
  /\ userMatches' = [userMatches EXCEPT ![procs[h].playerId] = procs[h].match.id]
  /\ inbox' = broadcastToMatch(inbox, userMatches', procs[h].match.id,
                               MatchFound(procs[h].match.id))
  /\ timers' = [timers EXCEPT ![procs[h].match.id] =
                  Append(@, procs[h].updatedMatch.gameData)]
  /\ responses' = [responses EXCEPT ![procs[h].playerId] = procs[h].updatedMatch]
  /\ procs' = [procs EXCEPT ![h] = Idle]
  /\ UNCHANGED <<storeVars, settleRuns, chanVars, aborted>>

\* lines 146-153: the callback of setTimeout broadcasts the first game_update.
\* The callbacks run in the order they were queued; those of different matches
\* write to different sockets, so the queue is kept per match.
InitialGameUpdate(matchId) ==
  /\ Len(timers[matchId]) > 0
  /\ inbox' = broadcastToMatch(inbox, userMatches, matchId,
                               GameUpdate(matchId, timers[matchId][1], 0))
  /\ timers' = [timers EXCEPT ![matchId] = Tail(@)]
  /\ UNCHANGED <<storeVars, userMatches, procs, responses, settleRuns, chanVars, aborted>>

\* ------------------------------------------------------------ connections
\* the socket of a connection starts to close: its readyState leaves OPEN before
\* the close event is emitted
SocketCloses(connectionId) ==
  /\ connectionId \in connectedClients
  /\ readyState[connectionId] = "OPEN"
  /\ readyState' = [readyState EXCEPT ![connectionId] = "CLOSING"]
  /\ UNCHANGED <<storeVars, userMatches, procs, responses, settleRuns,
                 connectedClients, userConnections, connectionUsers, inbox, timers,
                 aborted>>

\* ws.on('close'), lines 247-252; sessionUser is the user of the connection
OnClose(connectionId) ==
  /\ readyState[connectionId] = "CLOSING"
  /\ LET sessionUser == connectionId IN
     /\ readyState' = [readyState EXCEPT ![connectionId] = "CLOSED"]
     /\ connectedClients' = connectedClients \ {connectionId}
     /\ userMatches' = [userMatches EXCEPT ![sessionUser] = Null]
     /\ userConnections' = [userConnections EXCEPT ![sessionUser] = Null]
     /\ connectionUsers' = [connectionUsers EXCEPT ![connectionId] = Null]
  /\ UNCHANGED <<storeVars, procs, responses, settleRuns, inbox, timers, aborted>>

\* lines 221-245: the socket of connectionId is open and its user is sessionUser
Session(connectionId, sessionUser) ==
  /\ connectionId \in connectedClients
  /\ readyState[connectionId] = "OPEN"
  /\ connectionId = sessionUser

\* lines 227-232: a join_match event arrives on the connection of sessionUser with
\* a match id; nothing about the match is looked up
JoinMatch(connectionId, matchId) ==
  /\ Session(connectionId, connectionId)
  /\ LET sessionUser == connectionId IN
     userMatches' = [userMatches EXCEPT ![sessionUser] = matchId]
  /\ UNCHANGED <<storeVars, procs, responses, settleRuns, chanVars, inbox, timers,
                 aborted>>

\* lines 233-235: a leave_match event arrives on the connection of sessionUser
LeaveMatch(connectionId) ==
  /\ Session(connectionId, connectionId)
  /\ LET sessionUser == connectionId IN
     userMatches' = [userMatches EXCEPT ![sessionUser] = Null]
  /\ UNCHANGED <<storeVars, procs, responses, settleRuns, chanVars, inbox, timers,
                 aborted>>

\* ------------------------------------------------------------ rule engines
\* a move payload is a JSON object: a record holding only the fields the client sent
Has(data, f) == f \in DOMAIN data

\* a JavaScript truthiness test of a string-valued field ("" and undefined are falsy)
Truthy(s) == s \notin {"undefined", ""}

\* the first element instead of the last
Last_TakesFirst(s) == s[1]

\* the last element of a non-empty sequence
Last(s) == s[Len(s)]

\* a table in which rock beats paper
winConditions_RockBeatsPaper(move1) ==
  CASE move1 = "rock" -> "paper"
    [] move1 = "paper" -> "rock"
    [] move1 = "scissors" -> "paper"
    [] OTHER -> "undefined"

\* evaluateRPS, lines 677-685
winConditions(move1) ==
  CASE move1 = "rock" -> "scissors"
    [] move1 = "paper" -> "rock"
    [] move1 = "scissors" -> "paper"
    [] OTHER -> "undefined"

evaluateRPS(move1, move2) ==
  IF move1 = move2 THEN "draw"
  ELSE IF winConditions(move1) = move2 THEN "player1" ELSE "player2"

\* data.move of a recorded move, "undefined" when the payload has no such field
ShapeOf(m) == IF Has(m.moveData, "move") THEN m.moveData.move ELSE "undefined"

\* processRPSMove, lines 467-523
processRPSMove(match, allMoves, playerId) ==
  LET player1Id == match.player1Id
      player2Id == match.player2Id
      player1Moves == SelectSeq(allMoves, LAMBDA m : m.playerId = player1Id)
      player2Moves == SelectSeq(allMoves, LAMBDA m : m.playerId = player2Id)
      keys == (IF Len(player1Moves) > 0 THEN {player1Id} ELSE {}) \cup
              (IF Len(player2Moves) > 0 THEN {player2Id} ELSE {})
      \* line 487 runs after line 481: with equal ids the second assignment wins
      playerMoves == [k \in keys |->
                        IF k = player2Id /\ Len(player2Moves) > 0
                        THEN ShapeOf(Last(player2Moves))
                        ELSE ShapeOf(Last(player1Moves))]
      at(k) == IF k \in keys THEN playerMoves[k] ELSE "undefined"
  IN
  IF player1Id # Null /\ player2Id # Null /\ Truthy(at(player1Id)) /\ Truthy(at(player2Id))
  THEN LET move1 == at(player1Id)
           move2 == at(player2Id)
           result == evaluateRPS(move1, move2)
           winnerId == IF result = "player1" THEN player1Id
                       ELSE IF result = "player2" THEN player2Id ELSE Null
       IN [finished |-> TRUE,
           gameState |-> [tag |-> "rps", moves |-> playerMoves, result |-> result,
                          move1 |-> move1, move2 |-> move2, currentPlayer |-> Null],
           winnerId |-> winnerId]
  ELSE [finished |-> FALSE,
        gameState |-> [tag |-> "rps", moves |-> playerMoves,
                       waitingFor |-> IF ~Truthy(at(player1Id)) THEN player1Id
                                      ELSE player2Id,
                       currentPlayer |-> Null],
        winnerId |-> Null]

\* the lines without the diagonal 2-4-6
lines_NoAntiDiagonal == <<{0, 1, 2}, {3, 4, 5}, {6, 7, 8},
                          {0, 3, 6}, {1, 4, 7}, {2, 5, 8},
                          {0, 4, 8}>>

\* checkTicTacToeWinner, lines 687-700: the mark of the first complete line
lines == <<{0, 1, 2}, {3, 4, 5}, {6, 7, 8},
           {0, 3, 6}, {1, 4, 7}, {2, 5, 8},
           {0, 4, 8}, {2, 4, 6}>>

checkTicTacToeWinner(board) ==
  LET full == {n \in 1..Len(lines) :
                 \E mark \in {"X", "O"} : \A c \in lines[n] : board[c] = mark}
  IN IF full = {} THEN "_"
     ELSE LET first == CHOOSE n \in full : \A o \in full : n <= o
          IN board[CHOOSE c \in lines[first] : TRUE]

\* lines 531-538: the board after the first n moves of the log ("_" is an empty cell)
RECURSIVE ApplyToBoard(_, _, _)
ApplyToBoard(allMoves, n, player1Id) ==
  IF n = 0 THEN [c \in 0..8 |-> "_"]
  ELSE LET board == ApplyToBoard(allMoves, n - 1, player1Id)
           move == allMoves[n]
           data == move.moveData
           symbol == IF move.playerId = player1Id THEN "X" ELSE "O"
       IN IF /\ Has(data, "position")
             /\ data.position \in 0..8
             /\ board[data.position] = "_"
          THEN [board EXCEPT ![data.position] = symbol]
          ELSE board

\* processTicTacToeMove, lines 525-563
processTicTacToeMove(match, allMoves, playerId) ==
  LET player1Id == match.player1Id
      player2Id == match.player2Id
      board == ApplyToBoard(allMoves, Len(allMoves), player1Id)
      winner == checkTicTacToeWinner(board)
      finished == winner # "_" \/ \A c \in 0..8 : board[c] # "_"
      winnerId == IF winner = "X" THEN player1Id
                  ELSE IF winner = "O" THEN player2Id ELSE Null
      nextPlayer == IF finished THEN Null
                    ELSE IF Len(allMoves) % 2 = 0 THEN player2Id ELSE player1Id
  IN [finished |-> finished,
      gameState |-> [tag |-> "tictactoe", board |-> board,
                     currentPlayer |-> nextPlayer, winner |-> winner],
      winnerId |-> winnerId]

\* lines 571-574: what the log takes away; a payload without `take` makes the
\* count NaN for good
RECURSIVE TakenBy(_, _)
TakenBy(allMoves, n) ==
  IF n = 0 THEN 0 ELSE TakenBy(allMoves, n - 1) + allMoves[n].moveData.take

\* an engine that names the participant who took the last stick as the winner
processSticksMove_LastTakerWins(match, allMoves, playerId) ==
  LET isNaN == \E n \in 1..Len(allMoves) : ~Has(allMoves[n].moveData, "take")
      sticks == IF isNaN THEN 0 ELSE SticksStart - TakenBy(allMoves, Len(allMoves))
      nextPlayer == IF Len(allMoves) % 2 = 0 THEN match.player2Id ELSE match.player1Id
  IN IF ~isNaN /\ sticks <= 0
     THEN [finished |-> TRUE,
           gameState |-> [tag |-> "sticks", sticks |-> 0, isNaN |-> FALSE,
                          currentPlayer |-> Null, lastPlayer |-> playerId,
                          gameOver |-> TRUE],
           winnerId |-> playerId]
     ELSE [finished |-> FALSE,
           gameState |-> [tag |-> "sticks", sticks |-> sticks, isNaN |-> isNaN,
                          currentPlayer |-> nextPlayer, lastPlayer |-> playerId],
           winnerId |-> Null]

\* an engine that reports the count it computed when the match ends, not 0
processSticksMove_ReportsDeficit(match, allMoves, playerId) ==
  LET player1Id == match.player1Id
      player2Id == match.player2Id
      isNaN == \E n \in 1..Len(allMoves) : ~Has(allMoves[n].moveData, "take")
      sticks == IF isNaN THEN 0 ELSE SticksStart - TakenBy(allMoves, Len(allMoves))
      nextPlayer == IF Len(allMoves) % 2 = 0 THEN player2Id ELSE player1Id
  IN IF ~isNaN /\ sticks <= 0
     THEN [finished |-> TRUE,
           gameState |-> [tag |-> "sticks", sticks |-> sticks, isNaN |-> FALSE,
                          currentPlayer |-> Null, lastPlayer |-> playerId,
                          gameOver |-> TRUE],
           winnerId |-> IF playerId = player1Id THEN player2Id ELSE player1Id]
     ELSE [finished |-> FALSE,
           gameState |-> [tag |-> "sticks", sticks |-> sticks, isNaN |-> isNaN,
                          currentPlayer |-> nextPlayer, lastPlayer |-> playerId],
           winnerId |-> Null]

\* processSticksMove, lines 565-604
processSticksMove(match, allMoves, playerId) ==
  LET player1Id == match.player1Id
      player2Id == match.player2Id
      isNaN == \E n \in 1..Len(allMoves) : ~Has(allMoves[n].moveData, "take")
      sticks == IF isNaN THEN 0 ELSE SticksStart - TakenBy(allMoves, Len(allMoves))
      nextPlayer == IF Len(allMoves) % 2 = 0 THEN player2Id ELSE player1Id
  IN IF ~isNaN /\ sticks <= 0
     THEN [finished |-> TRUE,
           gameState |-> [tag |-> "sticks", sticks |-> 0, isNaN |-> FALSE,
                          currentPlayer |-> Null, lastPlayer |-> playerId,
                          gameOver |-> TRUE],
           winnerId |-> IF playerId = player1Id THEN player2Id ELSE player1Id]
     ELSE [finished |-> FALSE,
           gameState |-> [tag |-> "sticks", sticks |-> sticks, isNaN |-> isNaN,
                          currentPlayer |-> nextPlayer, lastPlayer |-> playerId],
           winnerId |-> Null]

Range(seq) == {seq[n] : n \in 1..Len(seq)}

\* String.prototype.toUpperCase on the letters the clients send
ToUpperCase(letter) ==
  CASE letter = "a" -> "A"
    [] letter = "n" -> "N"
    [] letter = "e" -> "E"
    [] letter = "o" -> "O"
    [] OTHER -> letter

MaxWrongGuesses == 6

\* a count that takes a repeated letter as a new guess
RECURSIVE Guesses_CountsRepeats(_, _, _, _)
Guesses_CountsRepeats(allMoves, n, word, match) ==
  IF n = 0 THEN [guessedLetters |-> <<>>, player1WrongGuesses |-> <<>>,
                 player2WrongGuesses |-> <<>>]
  ELSE LET g == Guesses_CountsRepeats(allMoves, n - 1, word, match)
           move == allMoves[n]
           letter == ToUpperCase(move.moveData.letter)
           wrong == letter \notin {WordLetters(word)[k] : k \in 1..Len(WordLetters(word))}
       IN [guessedLetters |-> Append(g.guessedLetters, letter),
           player1WrongGuesses |->
             IF wrong /\ move.playerId = match.player1Id
             THEN Append(g.player1WrongGuesses, letter) ELSE g.player1WrongGuesses,
           player2WrongGuesses |->
             IF wrong /\ move.playerId = match.player2Id
             THEN Append(g.player2WrongGuesses, letter) ELSE g.player2WrongGuesses]

\* lines 618-632: the guessed letters and the wrong guesses of each participant
\* after the first n moves of the log
RECURSIVE Guesses(_, _, _, _)
Guesses(allMoves, n, word, match) ==
  IF n = 0 THEN [guessedLetters |-> <<>>, player1WrongGuesses |-> <<>>,
                 player2WrongGuesses |-> <<>>]
  ELSE LET g == Guesses(allMoves, n - 1, word, match)
           move == allMoves[n]
           data == move.moveData
           letter == IF Has(data, "letter") THEN ToUpperCase(data.letter) ELSE "undefined"
       IN IF Truthy(letter) /\ letter \notin Range(g.guessedLetters)
          THEN [guessedLetters |-> Append(g.guessedLetters, letter),
                player1WrongGuesses |->
                  IF letter \notin Range(WordLetters(word)) /\ move.playerId = match.player1Id
                  THEN Append(g.player1WrongGuesses, letter)
                  ELSE g.player1WrongGuesses,
                player2WrongGuesses |->
                  IF /\ letter \notin Range(WordLetters(word))
                     /\ move.playerId # match.player1Id
                     /\ move.playerId = match.player2Id
                  THEN Append(g.player2WrongGuesses, letter)
                  ELSE g.player2WrongGuesses]
          ELSE g

\* an engine with one wrong-guess count shared by both participants
processHangmanMove_SharedCount(match, allMoves, playerId, randomWord) ==
  LET word == IF Has(match.gameData, "word") THEN match.gameData.word ELSE randomWord
      g == Guesses(allMoves, Len(allMoves), word, match)
      wordLetters == WordLetters(word)
      isComplete == \A n \in 1..Len(wordLetters) : wordLetters[n] \in Range(g.guessedLetters)
      sharedCount == Len(g.player1WrongGuesses) + Len(g.player2WrongGuesses)
      playerFailed == sharedCount >= MaxWrongGuesses
      other == IF playerId = match.player1Id THEN match.player2Id ELSE match.player1Id
  IN [finished |-> isComplete \/ playerFailed,
      gameState |-> [tag |-> "hangman", word |-> word,
                     guessedLetters |-> g.guessedLetters,
                     wrongGuesses |-> sharedCount,
                     player1WrongGuesses |-> Len(g.player1WrongGuesses),
                     player2WrongGuesses |-> Len(g.player2WrongGuesses),
                     currentPlayer |-> Null,
                     displayWord |-> wordLetters,
                     gameOver |-> isComplete \/ playerFailed, won |-> isComplete,
                     lost |-> playerFailed],
      winnerId |-> IF isComplete THEN playerId ELSE IF playerFailed THEN other ELSE Null]

\* processHangmanMove, lines 606-675; randomWord is the word line 609 draws when
\* the match record holds none
processHangmanMove(match, allMoves, playerId, randomWord) ==
  LET word == IF Has(match.gameData, "word") THEN match.gameData.word ELSE randomWord
      player1Id == match.player1Id
      player2Id == match.player2Id
      g == Guesses(allMoves, Len(allMoves), word, match)
      wordLetters == WordLetters(word)
      isComplete == \A n \in 1..Len(wordLetters) : wordLetters[n] \in Range(g.guessedLetters)
      currentPlayerWrongCount == IF playerId = player1Id THEN Len(g.player1WrongGuesses)
                                 ELSE Len(g.player2WrongGuesses)
      playerFailed == currentPlayerWrongCount >= MaxWrongGuesses
      nextPlayer == IF isComplete \/ playerFailed THEN Null
                    ELSE IF Len(allMoves) % 2 = 0 THEN player2Id ELSE player1Id
      winnerId == IF isComplete THEN playerId
                  ELSE IF playerFailed
                       THEN (IF playerId = player1Id THEN player2Id ELSE player1Id)
                       ELSE Null
      displayWord == [n \in 1..Len(wordLetters) |->
                        IF wordLetters[n] \in Range(g.guessedLetters)
                        THEN wordLetters[n] ELSE "_"]
  IN [finished |-> isComplete \/ playerFailed,
      gameState |-> [tag |-> "hangman", word |-> word,
                     guessedLetters |-> g.guessedLetters,
                     wrongGuesses |-> currentPlayerWrongCount,
                     player1WrongGuesses |-> Len(g.player1WrongGuesses),
                     player2WrongGuesses |-> Len(g.player2WrongGuesses),
                     currentPlayer |-> nextPlayer, displayWord |-> displayWord,
                     gameOver |-> isComplete \/ playerFailed, won |-> isComplete,
                     lost |-> playerFailed /\
                              playerId = (IF nextPlayer = player1Id THEN player2Id
                                          ELSE player1Id)],
      winnerId |-> winnerId]

\* processGameMove, lines 450-465
processGameMove(match, allMoves, playerId, randomWord) ==
  CASE match.gameType = "rps" -> processRPSMove(match, allMoves, playerId)
    [] match.gameType = "tictactoe" -> processTicTacToeMove(match, allMoves, playerId)
    [] match.gameType = "sticks" -> processSticksMove(match, allMoves, playerId)
    [] match.gameType = "hangman" ->
         processHangmanMove(match, allMoves, playerId, randomWord)
    [] OTHER -> [finished |-> FALSE, gameState |-> [tag |-> "empty"], winnerId |-> Null]

\* the payloads sent to a rock-paper-scissors match
RpsMoves == {[move |-> "rock"], [move |-> "paper"], [move |-> "scissors"]}

\* --------------------------------------------------------- handleGameMove
\* the make_move handlers in flight that have not yet reached createMove
PendingMoves ==
  Cardinality({h \in Procs : procs[h].kind = "move" /\ procs[h].pc \in {"gotMatch", "gotMoves"}})

\* getMatch: the stored record, or an absent one
getMatch(matchId) ==
  IF matchId \in 1..Len(matches) THEN matches[matchId] ELSE [id |-> Null, state |-> "absent"]

\* lines 236-240 and 257: a make_move event arrives on the connection of playerId;
\* call getMatch
HandleGameMove(h, MoveSet, matchCap, moveCap) ==
  /\ procs[h].pc = "idle"
  /\ StoredMoves(MaxMatches) + PendingMoves < moveCap
  /\ \E matchId \in 1..matchCap, playerId \in Players, move \in MoveSet :
       /\ Session(playerId, playerId)
       /\ procs' = [procs EXCEPT ![h] =
         [kind |-> "move", pc |-> "gotMatch", matchId |-> matchId,
          playerId |-> playerId, move |-> move, match |-> getMatch(matchId)]]
  /\ UNCHANGED <<storeVars, userMatches, responses, settleRuns, chanVars, inbox,
                 timers, aborted>>

\* lines 258-263: drop the move unless the match is in progress; call getMatchMoves
GameMoveFetchMoves(h) ==
  /\ procs[h].kind = "move" /\ procs[h].pc = "gotMatch"
  /\ LET p == procs[h] IN
     IF p.match.state # "in_progress"
     THEN procs' = [procs EXCEPT ![h] = Idle]
     ELSE procs' = [procs EXCEPT ![h] =
            [kind |-> "move", pc |-> "gotMoves", matchId |-> p.matchId,
             playerId |-> p.playerId, move |-> p.move, match |-> p.match,
             moves |-> getMatchMoves(p.matchId)]]
  /\ UNCHANGED <<storeVars, userMatches, responses, settleRuns, chanVars, inbox,
                 timers, aborted>>

\* a validator that lets every author move in the alternating-turn games
Accepts_AnyAuthor(match, ms, playerId) ==
  match.gameType = "rps" =>
    ~ /\ Len(SelectSeq(ms, LAMBDA m : m.playerId = match.player1Id)) > 0
      /\ Len(SelectSeq(ms, LAMBDA m : m.playerId = match.player2Id)) > 0

\* lines 266-289: is the move accepted by the turn validator?
Accepts(match, ms, playerId) ==
  IF match.gameType # "rps"
  THEN playerId = (IF Len(ms) % 2 = 0 THEN match.player2Id ELSE match.player1Id)
  ELSE ~ /\ Len(SelectSeq(ms, LAMBDA m : m.playerId = match.player1Id)) > 0
         /\ Len(SelectSeq(ms, LAMBDA m : m.playerId = match.player2Id)) > 0

\* lines 266-298: validate the turn; call createMove with the next move number
GameMoveAppend(h) ==
  /\ procs[h].kind = "move" /\ procs[h].pc = "gotMoves"
  /\ LET p == procs[h] IN
     IF ~Accepts(p.match, p.moves, p.playerId)
     THEN /\ procs' = [procs EXCEPT ![h] = Idle]
          /\ UNCHANGED moves
     ELSE /\ moves' = [moves EXCEPT ![p.matchId] = Append(@,
               [matchId |-> p.matchId, playerId |-> p.playerId, moveData |-> p.move,
                moveNumber |-> Len(p.moves) + 1])]
          /\ procs' = [procs EXCEPT ![h] =
               [kind |-> "move", pc |-> "createdMove", matchId |-> p.matchId,
                playerId |-> p.playerId, match |-> p.match,
                moveNumber |-> Len(p.moves) + 1]]
  /\ UNCHANGED <<matches, users, transactions, stats, userMatches, responses,
                 settleRuns, chanVars, inbox, timers, aborted>>

\* lines 303-304: call getMatchMoves again and recompute the state from the log
\* (processGameMove reads nothing but these locals)
GameMoveRecompute(h) ==
  /\ procs[h].kind = "move" /\ procs[h].pc = "createdMove"
  /\ LET p == procs[h]
         allMoves == getMatchMoves(p.matchId)
     IN \E randomWord \in (IF p.match.gameType = "hangman" /\ ~Has(p.match.gameData, "word")
                           THEN words ELSE {"-"}) :
          procs' = [procs EXCEPT ![h] =
            [kind |-> "move", pc |-> "gotResult", matchId |-> p.matchId,
             playerId |-> p.playerId, match |-> p.match,
             moveNumber |-> p.moveNumber, allMoves |-> allMoves,
             gameResult |-> processGameMove(p.match, allMoves, p.playerId, randomWord)]]
  /\ UNCHANGED <<storeVars, userMatches, responses, settleRuns, chanVars, inbox,
                 timers, aborted>>

\* lines 318-323 with updateMatch: the stored record after the terminal move
FinishMatch(stored, gameResult) ==
  [stored EXCEPT !.state = "finished",
                 !.winnerId = gameResult.winnerId,
                 !.gameData = gameResult.gameState]

\* lines 308-323: broadcast the game_update; when the engine reports a terminal
\* state, call updateMatch
GameMoveFinish(h) ==
  /\ procs[h].kind = "move" /\ procs[h].pc = "gotResult"
  /\ LET p == procs[h] IN
     /\ inbox' = broadcastToMatch(inbox, userMatches, p.matchId,
            GameUpdate(p.matchId, p.gameResult.gameState, Len(p.allMoves)))
     /\ IF ~p.gameResult.finished
        THEN /\ procs' = [procs EXCEPT ![h] = Idle]
             /\ UNCHANGED matches
        ELSE /\ matches' = [matches EXCEPT ![p.matchId] = FinishMatch(@, p.gameResult)]
             /\ procs' = [procs EXCEPT ![h] =
                  [kind |-> "move", pc |-> "finishedMatch", matchId |-> p.matchId,
                   match |-> p.match, moveNumber |-> p.moveNumber,
                   winnerId |-> p.gameResult.winnerId]]
  /\ UNCHANGED <<moves, users, transactions, stats, userMatches, responses,
                 settleRuns, chanVars, timers, aborted>>

\* ---------------------------------------------------- updateUserAfterGame
\* Number.prototype.toFixed(2) of an amount given in tenths of a cent, in cents
ToFixed2(milli) == (milli + 5) \div 10

\* stakeAmount * 1.9, in tenths of a cent
Winnings(stake) == stake * 19

\* the participant settled first (slot 1) and second (slot 2), lines 326-331
SettledUser(p) == IF p.slot = 1 THEN p.match.player1Id ELSE p.match.player2Id
Won(p) == p.winnerId = SettledUser(p)

Settling(p, pc, extra) ==
  [kind |-> "move", pc |-> pc, matchId |-> p.matchId, match |-> p.match,
   moveNumber |-> p.moveNumber, winnerId |-> p.winnerId, slot |-> extra.slot,
   user |-> extra.user]

\* lines 325-327 and 703: enter the settlement; updateUserAfterGame of
\* participant one calls getUser
GameMoveSettle(h) ==
  /\ procs[h].kind = "move" /\ procs[h].pc = "finishedMatch"
  /\ LET p == procs[h] IN
     /\ settleRuns' = [settleRuns EXCEPT ![p.matchId] = @ + 1]
     /\ procs' = [procs EXCEPT ![h] =
          Settling(p, "gotUser", [slot |-> 1, user |-> users[p.match.player1Id]])]
  /\ UNCHANGED <<storeVars, userMatches, responses, chanVars, inbox, timers, aborted>>

\* lines 706-730: compute the new balance and call createTransaction
SettleTransaction(h) ==
  /\ procs[h].kind = "move" /\ procs[h].pc = "gotUser"
  /\ LET p == procs[h]
         stake == p.match.stake
         currentBalance == p.user
         newBalance == IF Won(p) THEN ToFixed2(currentBalance * 10 + Winnings(stake))
                       ELSE currentBalance - stake
         earnedAmount == IF Won(p) THEN ToFixed2(Winnings(stake)) ELSE 0
     IN
     /\ transactions' = [transactions EXCEPT ![SettledUser(p)] = Append(@,
          IF Won(p)
          THEN [userId |-> SettledUser(p), type |-> "win", amount |-> earnedAmount]
          ELSE [userId |-> SettledUser(p), type |-> "lose", amount |-> stake])]
     /\ procs' = [procs EXCEPT ![h] =
          [Settling(p, "createdTransaction", p) EXCEPT !.user = newBalance]
            @@ [earnedAmount |-> earnedAmount]]
  /\ UNCHANGED <<matches, moves, users, stats, userMatches, responses,
                 settleRuns, chanVars, inbox, timers, aborted>>

\* line 733: call updateUserBalance
SettleBalance(h) ==
  /\ procs[h].kind = "move" /\ procs[h].pc = "createdTransaction"
  /\ LET p == procs[h] IN
     /\ users' = [users EXCEPT ![SettledUser(p)] = p.user]
     /\ procs' = [procs EXCEPT ![h] = [p EXCEPT !.pc = "updatedBalance"]]
  /\ UNCHANGED <<matches, moves, transactions, stats, userMatches, responses,
                 settleRuns, chanVars, inbox, timers, aborted>>

\* line 736: call getUserStats
SettleReadStats(h) ==
  /\ procs[h].kind = "move" /\ procs[h].pc = "updatedBalance"
  /\ LET p == procs[h] IN
     procs' = [procs EXCEPT ![h] =
       [p EXCEPT !.pc = "gotStats"] @@ [stats |-> stats[SettledUser(p)]]]
  /\ UNCHANGED <<storeVars, userMatches, responses, settleRuns, chanVars, inbox,
                 timers, aborted>>

\* lines 737-742: call updateUserStats
SettleWriteStats(h) ==
  /\ procs[h].kind = "move" /\ procs[h].pc = "gotStats"
  /\ LET p == procs[h] IN
     /\ stats' = [stats EXCEPT ![SettledUser(p)] =
          [totalGames |-> p.stats.totalGames + 1,
           totalWins |-> p.stats.totalWins + (IF Won(p) THEN 1 ELSE 0),
           totalLosses |-> p.stats.totalLosses + (IF Won(p) THEN 0 ELSE 1),
           totalEarned |-> p.stats.totalEarned + p.earnedAmount]]
     /\ procs' = [procs EXCEPT ![h] =
          Settling(p, "updatedStats", p)]
  /\ UNCHANGED <<matches, moves, users, transactions, userMatches, responses,
                 settleRuns, chanVars, inbox, timers, aborted>>

\* lines 329-331 and 333-365: after participant one settle participant two; after
\* participant two the handler sends the results and returns
SettleNext(h) ==
  /\ procs[h].kind = "move" /\ procs[h].pc = "updatedStats"
  /\ LET p == procs[h] IN
     IF p.slot = 1
     THEN /\ procs' = [procs EXCEPT ![h] =
               Settling(p, "gotUser", [slot |-> 2, user |-> users[p.match.player2Id]])]
          /\ UNCHANGED inbox
     ELSE /\ procs' = [procs EXCEPT ![h] = Idle]
          /\ inbox' = SendResults(inbox, p.match, p.winnerId)
  /\ UNCHANGED <<storeVars, userMatches, responses, settleRuns, chanVars, timers,
                 aborted>>

\* lines 366-368: the repository call the handler is about to make throws; the
\* code before the call has run, the catch block logs the error and the handler
\* returns.  A handler that has no repository call left cannot fail this way.
CallsStorageNext(p) ==
  /\ p.kind = "move"
  /\ \/ p.pc = "gotMatch" /\ p.match.state = "in_progress"
     \/ p.pc = "gotMoves" /\ Accepts(p.match, p.moves, p.playerId)
     \/ p.pc = "createdMove"
     \/ p.pc = "gotResult" /\ p.gameResult.finished
     \/ p.pc \in {"finishedMatch", "gotUser", "createdTransaction", "updatedBalance",
                  "gotStats"}
     \/ p.pc = "updatedStats" /\ p.slot = 1

GameMoveThrows(h) ==
  /\ CallsStorageNext(procs[h])
  /\ LET p == procs[h] IN
     /\ inbox' = IF p.pc = "gotResult"
                 THEN broadcastToMatch(inbox, userMatches, p.matchId,
                        GameUpdate(p.matchId, p.gameResult.gameState, Len(p.allMoves)))
                 ELSE inbox
     /\ settleRuns' = IF p.pc = "finishedMatch"
                      THEN [settleRuns EXCEPT ![p.matchId] = @ + 1] ELSE settleRuns
     /\ aborted' = aborted \cup
          {[matchId |-> p.matchId, at |-> p.pc,
            moveNumber |-> IF p.pc = "gotMatch" THEN Null
                           ELSE IF p.pc = "gotMoves" THEN Len(p.moves) + 1
                           ELSE p.moveNumber]}
  /\ procs' = [procs EXCEPT ![h] = Idle]
  /\ UNCHANGED <<storeVars, userMatches, responses, chanVars, timers>>

\* ------------------------------------------------------------------- Init
\* lines 209-218: every player has opened a connection and got its user_session;
\* box holds what the server wrote to the sockets since
Connected(box) ==
  /\ connectedClients = Players
  /\ userConnections = [u \in Players |-> u]
  /\ connectionUsers = [c \in Players |-> c]
  /\ readyState = [c \in Players |-> "OPEN"]
  /\ inbox = box
  /\ timers = [m \in 1..MaxMatches |-> <<>>]
  /\ aborted = {}

\* lines 247-252: every player has closed the connection again
Disconnected ==
  /\ connectedClients = {}
  /\ userConnections = [u \in Players |-> Null]
  /\ connectionUsers = [c \in Players |-> Null]
  /\ readyState = [c \in Players |-> "CLOSED"]
  /\ inbox = [c \in Players |-> <<>>]
  /\ timers = [m \in 1..MaxMatches |-> <<>>]
  /\ aborted = {}

\* the repository holds the users and nothing else; no request is in flight
Fresh ==
  /\ matches = <<>>
  /\ moves = [m \in 1..MaxMatches |-> <<>>]
  /\ users = [u \in Players |-> InitialBalance]
  /\ transactions = [u \in Players |-> <<>>]
  /\ stats = [u \in Players |->
       [totalGames |-> 0, totalWins |-> 0, totalLosses |-> 0, totalEarned |-> 0]]
  /\ userMatches = [u \in Players |-> Null]
  /\ procs = [h \in Procs |-> Idle]
  /\ responses = [u \in Players |-> [id |-> Null]]
  /\ settleRuns = [m \in 1..MaxMatches |-> 0]

Init == Fresh /\ Connected([c \in Players |-> <<>>])

Next ==
  \E h \in Procs :
    \/ PostMatches(h, {"rps"}, {1000}, LifeMatches)
    \/ PostMatchesStore(h, words)
    \/ PostMatchesCreated(h)
    \/ PostMatchesJoined(h)
    \/ HandleGameMove(h, RpsMoves, LifeMatches, LifeMoves)
    \/ GameMoveFetchMoves(h)
    \/ GameMoveAppend(h)
    \/ GameMoveRecompute(h)
    \/ GameMoveFinish(h)
    \/ GameMoveSettle(h)
    \/ SettleTransaction(h)
    \/ SettleBalance(h)
    \/ SettleReadStats(h)
    \/ SettleWriteStats(h)
    \/ SettleNext(h)

Spec == Init /\ [][Next]_vars

\* the match-making endpoint alone, over two stakes, called by players whose
\* connections are closed
MatchInit == Fresh /\ Disconnected

MatchNext ==
  \E h \in Procs :
    \/ PostMatches(h, {"rps"}, Stakes, MaxMatches)
    \/ PostMatchesStore(h, words)
    \/ PostMatchesCreated(h)
    \/ PostMatchesJoined(h)

MatchSpec == MatchInit /\ [][MatchNext]_vars

\* the payloads sent to the matches of the alternating-turn games
TurnMoves == {[position |-> 0], [take |-> 3],
              [letter |-> "N"], [letter |-> "e"], [letter |-> "O"]}

\* no other make_move is being handled
NoOtherMove(h) == \A g \in Procs \ {h} : procs[g].kind # "move"

\* the alternating-turn games, every make_move handled to completion before the
\* next one starts; match requests interleave freely
TurnNext ==
  \E h \in Procs :
    \/ PostMatches(h, {"tictactoe", "sticks", "hangman"}, {1000}, LifeMatches)
    \/ PostMatchesStore(h, {"NEON"})
    \/ PostMatchesCreated(h)
    \/ PostMatchesJoined(h)
    \/ NoOtherMove(h) /\ HandleGameMove(h, TurnMoves, LifeMatches, MaxMoves)
    \/ GameMoveFetchMoves(h)
    \/ GameMoveAppend(h)
    \/ GameMoveRecompute(h)
    \/ GameMoveFinish(h)
    \/ GameMoveSettle(h)
    \/ SettleTransaction(h)
    \/ SettleBalance(h)
    \/ SettleReadStats(h)
    \/ SettleWriteStats(h)
    \/ SettleNext(h)

TurnSpec == Init /\ [][TurnNext]_vars

MatchIds == 1..Len(matches)
NoHandlerInFlight == \A h \in Procs : procs[h].pc = "idle"

\* ------------------------------------------ a handler that runs undisturbed
\* updateUserAfterGame, lines 702-743, with no other handler between its awaits:
\* the balances, transaction rows and statistics it leaves behind
updateUserAfterGame(won, stake, userId, store) ==
  LET currentBalance == store.users[userId]
      newBalance == IF won THEN ToFixed2(currentBalance * 10 + Winnings(stake))
                    ELSE currentBalance - stake
      earnedAmount == IF won THEN ToFixed2(Winnings(stake)) ELSE 0
      row == IF won THEN [userId |-> userId, type |-> "win", amount |-> earnedAmount]
             ELSE [userId |-> userId, type |-> "lose", amount |-> stake]
      old == store.stats[userId]
  IN [users |-> [store.users EXCEPT ![userId] = newBalance],
      transactions |-> [store.transactions EXCEPT ![userId] = Append(@, row)],
      stats |-> [store.stats EXCEPT ![userId] =
                   [totalGames |-> old.totalGames + 1,
                    totalWins |-> old.totalWins + (IF won THEN 1 ELSE 0),
                    totalLosses |-> old.totalLosses + (IF won THEN 0 ELSE 1),
                    totalEarned |-> old.totalEarned + earnedAmount]]]

\* lines 325-331: participant one is settled, then participant two
SettleBoth(match, winnerId, store) ==
  LET one == IF match.player1Id # Null
             THEN updateUserAfterGame(winnerId = match.player1Id, match.stake,
                                      match.player1Id, store)
             ELSE store
  IN IF match.player2Id # Null
     THEN updateUserAfterGame(winnerId = match.player2Id, match.stake,
                              match.player2Id, one)
     ELSE one

\* handleGameMove, lines 255-369, from the make_move event to its return with no
\* other handler running between its awaits.  A rejected move changes nothing.
HandleGameMoveAlone(matchId, playerId, move, moveCap) ==
  LET match == getMatch(matchId)
      ms == getMatchMoves(matchId)
      stored == Append(moves[matchId],
                       [matchId |-> matchId, playerId |-> playerId, moveData |-> move,
                        moveNumber |-> Len(ms) + 1])
      allMoves == SortedFrom(stored, 1)
  IN
  /\ NoHandlerInFlight
  /\ Session(playerId, playerId)
  /\ Len(moves[matchId]) < moveCap
  /\ match.state = "in_progress"
  /\ Accepts(match, ms, playerId)
  /\ moves' = [moves EXCEPT ![matchId] = stored]
  /\ \E randomWord \in (IF match.gameType = "hangman" /\ ~Has(match.gameData, "word")
                        THEN words ELSE {"-"}) :
       LET gameResult == processGameMove(match, allMoves, playerId, randomWord)
           after == SettleBoth(match, gameResult.winnerId,
                               [users |-> users, transactions |-> transactions,
                                stats |-> stats])
           update == broadcastToMatch(inbox, userMatches, matchId,
                       GameUpdate(matchId, gameResult.gameState, Len(allMoves)))
       IN IF gameResult.finished
          THEN /\ matches' = [matches EXCEPT ![matchId] = FinishMatch(@, gameResult)]
               /\ users' = after.users
               /\ transactions' = after.transactions
               /\ stats' = after.stats
               /\ settleRuns' = [settleRuns EXCEPT ![matchId] = @ + 1]
               /\ inbox' = SendResults(update, match, gameResult.winnerId)
          ELSE /\ inbox' = update
               /\ UNCHANGED <<matches, users, transactions, stats, settleRuns>>
  /\ UNCHANGED <<userMatches, procs, responses, chanVars, timers, aborted>>

\* the state after player 1 created a match of stake 10 and player 2 joined it,
\* both requests answered and the first game_update sent
Paired(gameType, word) ==
  LET created == NewMatch(1, gameType, 1000, 1)
      joined == PairInto(created, 2, createInitialGameState(gameType, 1, 2, word))
  IN
  /\ matches = <<joined>>
  /\ moves = [m \in 1..MaxMatches |-> <<>>]
  /\ users = [u \in Players |-> InitialBalance]
  /\ transactions = [u \in Players |-> <<>>]
  /\ stats = [u \in Players |->
       [totalGames |-> 0, totalWins |-> 0, totalLosses |-> 0, totalEarned |-> 0]]
  /\ userMatches = [u \in Players |-> IF u \in {1, 2} THEN 1 ELSE Null]
  /\ procs = [h \in Procs |-> Idle]
  /\ responses = [u \in Players |->
       IF u = 1 THEN created ELSE IF u = 2 THEN joined ELSE [id |-> Null]]
  /\ settleRuns = [m \in 1..MaxMatches |-> 0]
  /\ Connected([c \in Players |->
       IF c \in {1, 2} THEN <<MatchFound(1), GameUpdate(1, joined.gameData, 0)>>
       ELSE <<>>])

\* the log of a match and what the clients can see of it
Log(matchId) == getMatchMoves(matchId)

\* a rock-paper-scissors match of players 1 and 2; the handlers interleave at every
\* await.  One payload comes without the field `move`.
ShapeMoves == 3
ShapePayloads == {[move |-> "rock"], [move |-> "paper"], [choice |-> "rock"]}

ShapeInit == Paired("rps", "-")

ShapeNext ==
  \E h \in Procs :
    \/ HandleGameMove(h, ShapePayloads, LifeMatches, ShapeMoves)
    \/ GameMoveFetchMoves(h)
    \/ GameMoveAppend(h)
    \/ GameMoveRecompute(h)
    \/ GameMoveFinish(h)
    \/ GameMoveSettle(h)
    \/ SettleTransaction(h)
    \/ SettleBalance(h)
    \/ SettleReadStats(h)
    \/ SettleWriteStats(h)
    \/ SettleNext(h)

ShapeSpec == ShapeInit /\ [][ShapeNext]_vars

\* a tictactoe match of players 1 and 2, every make_move handled undisturbed; the
\* clients offer only cells no recorded move names, and open with a corner, an
\* edge or the centre (the other openings are rotations of these)
GridMoves == 9
Openings == {0, 1, 4}
FreeCells(matchId) ==
  LET log == Log(matchId)
  IN IF Len(log) = 0 THEN Openings
     ELSE {c \in 0..8 : \A n \in 1..Len(log) : log[n].moveData.position # c}

GridInit == Paired("tictactoe", "-")

GridNext ==
  \E playerId \in Players, position \in FreeCells(1) :
    HandleGameMoveAlone(1, playerId, [position |-> position], GridMoves)

GridSpec == GridInit /\ [][GridNext]_vars

\* a sticks match of players 1 and 2, every make_move handled undisturbed; the
\* clients take 0, 2, 3 or 4
SticksMoves == 8
SticksPayloads == {[take |-> 0], [take |-> 2], [take |-> 3], [take |-> 4]}

SticksInit == Paired("sticks", "-")

SticksNext ==
  \E playerId \in Players, move \in SticksPayloads :
    HandleGameMoveAlone(1, playerId, move, SticksMoves)

SticksSpec == SticksInit /\ [][SticksNext]_vars

\* a hangman match of players 1 and 2 on the word NEON, every make_move handled
\* undisturbed.  A client proposes "a", the first letter of NEON nobody proposed,
\* or the first letter outside NEON nobody proposed.
WordMoves == 11
OtherLetters == <<"A", "B", "C", "D", "F", "G", "H", "I", "J", "K", "L">>

Proposed(log) == {ToUpperCase(log[n].moveData.letter) : n \in 1..Len(log)}

FirstNew(letters, proposed) ==
  LET new == {n \in 1..Len(letters) : letters[n] \notin proposed}
  IN IF new = {} THEN {}
     ELSE {letters[CHOOSE n \in new : \A o \in new : n <= o]}

WordPayloads(matchId) ==
  LET proposed == Proposed(Log(matchId))
  IN {[letter |-> l] : l \in {"a"} \cup FirstNew(WordLetters("NEON"), proposed)
                                  \cup FirstNew(OtherLetters, proposed)}

WordInit == Paired("hangman", "NEON")

WordNext ==
  \E playerId \in Players, move \in WordPayloads(1) :
    HandleGameMoveAlone(1, playerId, move, WordMoves)

WordSpec == WordInit /\ [][WordNext]_vars

\* hangman matches drawn from two words; match requests interleave freely, every
\* make_move is handled to completion before the next one starts
RollMoves == 4
RollWords == {"NEON", "RETRO"}
RollPayloads == {[letter |-> "N"], [letter |-> "E"], [letter |-> "O"]}

RollNext ==
  \E h \in Procs :
    \/ PostMatches(h, {"hangman"}, {1000}, LifeMatches)
    \/ PostMatchesStore(h, RollWords)
    \/ PostMatchesCreated(h)
    \/ PostMatchesJoined(h)
    \/ NoOtherMove(h) /\ HandleGameMove(h, RollPayloads, LifeMatches, RollMoves)
    \/ GameMoveFetchMoves(h)
    \/ GameMoveAppend(h)
    \/ GameMoveRecompute(h)
    \/ GameMoveFinish(h)
    \/ GameMoveSettle(h)
    \/ SettleTransaction(h)
    \/ SettleBalance(h)
    \/ SettleReadStats(h)
    \/ SettleWriteStats(h)
    \/ SettleNext(h)

RollSpec == Init /\ [][RollNext]_vars

\* a rock-paper-scissors match of players 1 and 2 whose repository calls may
\* throw; every make_move is handled to its return before the next one starts
FailMoves == 2
FailPayloads == {[move |-> "rock"], [move |-> "paper"]}

FailInit == Paired("rps", "-")

FailNext ==
  \E h \in Procs :
    \/ NoOtherMove(h) /\ HandleGameMove(h, FailPayloads, LifeMatches, FailMoves)
    \/ GameMoveFetchMoves(h)
    \/ GameMoveAppend(h)
    \/ GameMoveRecompute(h)
    \/ GameMoveFinish(h)
    \/ GameMoveSettle(h)
    \/ SettleTransaction(h)
    \/ SettleBalance(h)
    \/ SettleReadStats(h)
    \/ SettleWriteStats(h)
    \/ SettleNext(h)
    \/ GameMoveThrows(h)

FailSpec == FailInit /\ [][FailNext]_vars

\* the lobby: clients ask for matches of stake 10 while their connection is
\* open, one request at a time; the first game_update follows each pairing, and
\* connections close at any moment
LobbyMatches == 2

LobbyNext ==
  \/ \E h \in Procs :
       \/ /\ NoHandlerInFlight
          /\ PostMatches(h, {"rps"}, {1000}, LobbyMatches)
          /\ Session(procs'[h].playerId, procs'[h].playerId)
       \/ PostMatchesStore(h, words)
       \/ PostMatchesCreated(h)
       \/ PostMatchesJoined(h)
  \/ \E matchId \in 1..LobbyMatches : InitialGameUpdate(matchId)
  \/ \E connectionId \in Players :
       \/ SocketCloses(connectionId)
       \/ OnClose(connectionId)

LobbySpec == Init /\ [][LobbyNext]_vars

\* two rock-paper-scissors matches of player 1, against player 2 and against
\* player 3: player 1 created match 1, player 2 joined, player 1 played rock;
\* then player 1 created match 2, player 3 joined, player 1 played rock.  Every
\* request so far ran undisturbed.
TwinInit ==
  LET created1 == NewMatch(1, "rps", 1000, 1)
      created2 == NewMatch(2, "rps", 1000, 1)
      state == createInitialGameState("rps", 1, 2, "-")
      joined1 == PairInto(created1, 2, state)
      joined2 == PairInto(created2, 3, state)
      rock(i) == [matchId |-> i, playerId |-> 1, moveData |-> [move |-> "rock"],
                  moveNumber |-> 1]
      entered(i) == processGameMove(IF i = 1 THEN joined1 ELSE joined2, <<rock(i)>>,
                                    1, "-").gameState
      seen(i) == <<MatchFound(i), GameUpdate(i, state, 0), GameUpdate(i, entered(i), 1)>>
  IN
  /\ matches = <<joined1, joined2>>
  /\ moves = [m \in 1..MaxMatches |-> IF m \in {1, 2} THEN <<rock(m)>> ELSE <<>>]
  /\ users = [u \in Players |-> InitialBalance]
  /\ transactions = [u \in Players |-> <<>>]
  /\ stats = [u \in Players |->
       [totalGames |-> 0, totalWins |-> 0, totalLosses |-> 0, totalEarned |-> 0]]
  /\ userMatches = [u \in Players |->
       IF u = 2 THEN 1 ELSE IF u \in {1, 3} THEN 2 ELSE Null]
  /\ procs = [h \in Procs |-> Idle]
  /\ responses = [u \in Players |->
       IF u = 1 THEN created2 ELSE IF u = 2 THEN joined1
       ELSE IF u = 3 THEN joined2 ELSE [id |-> Null]]
  /\ settleRuns = [m \in 1..MaxMatches |-> 0]
  /\ Connected([c \in Players |->
       IF c = 1 THEN seen(1) \o seen(2) ELSE IF c = 2 THEN seen(1)
       ELSE IF c = 3 THEN seen(2) ELSE <<>>])

\* the opponents answer, each in the own match; the two matches are handled at
\* the same time, the moves of one match one after the other
TwinMatches == 2
TwinMoves == 4
TwinPayloads == {[move |-> "paper"], [move |-> "scissors"]}

TwinNext ==
  \E h \in Procs :
    \/ /\ HandleGameMove(h, TwinPayloads, TwinMatches, TwinMoves)
       /\ procs'[h].matchId \in MatchIds
       /\ procs'[h].playerId = matches[procs'[h].matchId].player2Id
       /\ \A g \in Procs \ {h} :
            procs[g].kind = "move" => procs[g].matchId # procs'[h].matchId
    \/ GameMoveFetchMoves(h)
    \/ GameMoveAppend(h)
    \/ GameMoveRecompute(h)
    \/ GameMoveFinish(h)
    \/ GameMoveSettle(h)
    \/ SettleTransaction(h)
    \/ SettleBalance(h)
    \/ SettleReadStats(h)
    \/ SettleWriteStats(h)
    \/ SettleNext(h)

TwinSpec == TwinInit /\ [][TwinNext]_vars

\* a sticks match of players 1 and 2, every make_move handled undisturbed, while
\* every connected client may send join_match with any match id, or leave_match
WatchMoves == 2
WatchMatches == 2
WatchPayloads == {[take |-> 2], [take |-> 3]}

WatchInit == Paired("sticks", "-")

WatchNext ==
  \/ \E playerId \in Players, move \in WatchPayloads :
       HandleGameMoveAlone(1, playerId, move, WatchMoves)
  \/ \E connectionId \in Players, matchId \in 1..WatchMatches :
       JoinMatch(connectionId, matchId)
  \/ \E connectionId \in Players : LeaveMatch(connectionId)

WatchSpec == WatchInit /\ [][WatchNext]_vars

\* a rock-paper-scissors match of players 1 and 2, every make_move handled
\* undisturbed; one of the shapes the clients send is none of the three
OddMoves == 3
OddPayloads == {[move |-> "rock"], [move |-> "scissors"], [move |-> "lizard"]}

OddInit == Paired("rps", "-")

OddNext ==
  \E playerId \in Players, move \in OddPayloads :
    HandleGameMoveAlone(1, playerId, move, OddMoves)

OddSpec == OddInit /\ [][OddNext]_vars

\* a sticks match asked for with a stake of 2000.00, more than the 1337.50 every
\* user holds: the requests run one at a time and every make_move is handled
\* undisturbed
DebtStakes == {200000}
DebtMoves == 6
DebtPayloads == {[take |-> 2], [take |-> 3], [take |-> 4]}

DebtNext ==
  \/ \E h \in Procs :
       \/ NoHandlerInFlight /\ PostMatches(h, {"sticks"}, DebtStakes, LifeMatches)
       \/ PostMatchesStore(h, words)
       \/ PostMatchesCreated(h)
       \/ PostMatchesJoined(h)
  \/ \E matchId \in 1..LifeMatches : InitialGameUpdate(matchId)
  \/ \E matchId \in MatchIds, playerId \in Players, move \in DebtPayloads :
       HandleGameMoveAlone(matchId, playerId, move, DebtMoves)

DebtSpec == Init /\ [][DebtNext]_vars

\* a sticks match of players 1 and 2, every make_move handled undisturbed; the
\* clients take 1 or 3
TakeMoves == 22
TakePayloads == {[take |-> 1], [take |-> 3]}

TakeInit == Paired("sticks", "-")

TakeNext ==
  \E playerId \in Players, move \in TakePayloads :
    HandleGameMoveAlone(1, playerId, move, TakeMoves)

TakeSpec == TakeInit /\ [][TakeNext]_vars

\* ------------------------------------------------------------ properties

\* C1: two different players are never both answered as participant-two of the
\* same match.
C1_AtMostOneJoinerAnswered ==
  \A p, q \in Players :
    ~ /\ p # q
      /\ responses[p].id # Null
      /\ responses[p].id = responses[q].id
      /\ responses[p].player2Id = p
      /\ responses[q].player2Id = q

\* C2: a waiting match has no participant-two; a match in progress or finished
\* has one.
C2_Player2IffPaired ==
  \A i \in MatchIds :
    /\ matches[i].state \in {"waiting", "in_progress", "finished"}
    /\ matches[i].state = "waiting" <=> matches[i].player2Id = Null

C2_Witness ==
  \E i \in MatchIds : matches[i].state = "finished" /\ matches[i].player2Id # Null

\* C3: the state of a match never moves backward and a paired match keeps its
\* participant-two.
C3_LifecycleForwardOnly ==
  [][\A i \in MatchIds :
       /\ matches[i].state = "finished" => matches'[i].state = "finished"
       /\ matches[i].state # "waiting" =>
            /\ matches'[i].state # "waiting"
            /\ matches'[i].player2Id = matches[i].player2Id]_vars

\* C4: the settlement block is entered at most once per match.
C4_SettledAtMostOnce == \A m \in 1..MaxMatches : settleRuns[m] <= 1

\* C5: the moves of every match, ordered by move number, are numbered 1..n.
C5_ContiguousMoveNumbers ==
  \A m \in 1..MaxMatches :
    \A k \in 1..Len(getMatchMoves(m)) : getMatchMoves(m)[k].moveNumber = k

\* C6: in a tictactoe, sticks or hangman match the recorded moves are authored in
\* turn by participant-two, participant-one, participant-two, ..., and the
\* currentPlayer of the initial game state is participant-two.
C6_AlternateFromJoiner ==
  \A i \in MatchIds :
    matches[i].gameType # "rps" =>
      /\ \A k \in 1..Len(getMatchMoves(i)) :
           getMatchMoves(i)[k].playerId =
             (IF k % 2 = 1 THEN matches[i].player2Id ELSE matches[i].player1Id)
      /\ matches[i].state = "in_progress" =>
           matches[i].gameData.currentPlayer = matches[i].player2Id

\* C7: while every finished match is a draw, no balance has changed and no
\* transaction row exists.
C7_DrawChangesNothing ==
  (/\ \E i \in MatchIds : matches[i].state = "finished"
   /\ \A i \in MatchIds : matches[i].state = "finished" => matches[i].winnerId = Null)
  => \A u \in Players : users[u] = InitialBalance /\ transactions[u] = <<>>

\* C8: once a match with stake s has finished with a winner and no handler is in
\* flight, the winner holds 1.9*s more with one win row of 1.9*s, and the other
\* participant holds s less with one lose row of s.
C8_WinnerAndLoserAmounts ==
  \A i \in MatchIds :
    (matches[i].state = "finished" /\ matches[i].winnerId # Null /\ NoHandlerInFlight) =>
      LET s == matches[i].stake
          w == matches[i].winnerId
          \* the opponent the terminal state was computed for
          l == CHOOSE k \in DOMAIN matches[i].gameData.moves : k # w
      IN /\ users[w] = InitialBalance + (19 * s) \div 10
         /\ transactions[w] = <<[userId |-> w, type |-> "win", amount |-> (19 * s) \div 10]>>
         /\ users[l] = InitialBalance - s
         /\ transactions[l] = <<[userId |-> l, type |-> "lose", amount |-> s]>>

\* C9: no match has the same player on both sides, and a request that finds the
\* requester's own waiting match first creates a new, distinct waiting match.
C9_NeverPairedWithSelf ==
  /\ \A i \in MatchIds : matches[i].player1Id # matches[i].player2Id
  /\ \A p \in Players :
       responses[p].id # Null => responses[p].player1Id # responses[p].player2Id
  /\ \A h \in Procs :
       (/\ procs[h].kind = "match" /\ procs[h].pc = "created"
        /\ Len(procs[h].waitingMatches) > 0
        /\ procs[h].waitingMatches[1].player1Id = procs[h].playerId) =>
         /\ procs[h].newMatch.state = "waiting"
         /\ procs[h].newMatch.player1Id = procs[h].playerId
         /\ procs[h].newMatch.player2Id = Null
         /\ \A k \in 1..Len(procs[h].waitingMatches) :
              procs[h].waitingMatches[k].id # procs[h].newMatch.id
         /\ matches[procs[h].waitingMatches[1].id].player2Id # procs[h].playerId

C9_Witness ==
  /\ \E h \in Procs :
       /\ procs[h].kind = "match" /\ procs[h].pc = "created"
       /\ Len(procs[h].waitingMatches) > 0
       /\ procs[h].waitingMatches[1].player1Id = procs[h].playerId
  /\ \E i \in MatchIds : matches[i].player2Id # Null

\* C10: a request creates a match only when the waiting matches it found for its
\* pair hold none of another player.
C10_CreatesOnlyWithoutCandidate ==
  \A h \in Procs :
    (procs[h].kind = "match" /\ procs[h].pc = "created") =>
      \A k \in 1..Len(procs[h].waitingMatches) :
        procs[h].waitingMatches[k].player1Id = procs[h].playerId

\* C11: in an rps match whose log holds a move of each participant, no step
\* appends a move to the log, and once the match is finished no step changes its
\* winner.
C11_NoMoveAfterBothMoved ==
  [][\A i \in MatchIds :
       (/\ matches[i].gameType = "rps"
        /\ \E n \in 1..Len(moves[i]) : moves[i][n].playerId = matches[i].player1Id
        /\ \E n \in 1..Len(moves[i]) : moves[i][n].playerId = matches[i].player2Id) =>
         /\ moves'[i] = moves[i]
         /\ matches[i].state = "finished" =>
              /\ matches'[i].state = "finished"
              /\ matches'[i].winnerId = matches[i].winnerId]_vars

\* C12: an rps match whose log holds a move of each participant is finished as
\* soon as no make_move handler is in flight.
C12_FinishedOnceBothMoved ==
  \A i \in MatchIds :
    (/\ matches[i].gameType = "rps"
     /\ NoHandlerInFlight
     /\ \E n \in 1..Len(moves[i]) : moves[i][n].playerId = matches[i].player1Id
     /\ \E n \in 1..Len(moves[i]) : moves[i][n].playerId = matches[i].player2Id) =>
      matches[i].state = "finished"

\* C13: in an rps match a move of a participant is appended as long as the log the
\* handler read holds no move of the opponent, and every outcome is computed from
\* the move each participant has last in the log: the state reports these two
\* shapes and the winner is decided between them.
C13_LatestMoveCounts ==
  [][\A h \in Procs :
       LET p == procs[h]
           player1Id == p.match.player1Id
           player2Id == p.match.player2Id
           log == Log(p.matchId)
           latest(u) == log[CHOOSE n \in 1..Len(log) :
                              /\ log[n].playerId = u
                              /\ \A k \in (n + 1)..Len(log) : log[k].playerId # u]
           shape(u) == IF Has(latest(u).moveData, "move") THEN latest(u).moveData.move
                       ELSE "none"
           beats == {<<"rock", "scissors">>, <<"paper", "rock">>, <<"scissors", "paper">>}
       IN
       /\ (/\ p.kind = "move" /\ p.pc = "gotMoves" /\ procs'[h].pc # "gotMoves"
           /\ p.match.gameType = "rps"
           /\ \/ p.playerId = player1Id /\ \A n \in 1..Len(p.moves) : p.moves[n].playerId # player2Id
              \/ p.playerId = player2Id /\ \A n \in 1..Len(p.moves) : p.moves[n].playerId # player1Id)
          => /\ Len(moves'[p.matchId]) = Len(moves[p.matchId]) + 1
             /\ moves'[p.matchId][Len(moves'[p.matchId])].playerId = p.playerId
             /\ moves'[p.matchId][Len(moves'[p.matchId])].moveData = p.move
       /\ (/\ p.kind = "move" /\ p.pc = "createdMove" /\ procs'[h].pc = "gotResult"
           /\ p.match.gameType = "rps"
           /\ procs'[h].gameResult.finished)
          => LET result == procs'[h].gameResult IN
             /\ result.gameState.moves[player1Id] = shape(player1Id)
             /\ result.gameState.moves[player2Id] = shape(player2Id)
             /\ result.winnerId =
                  (IF shape(player1Id) = shape(player2Id) THEN Null
                   ELSE IF <<shape(player1Id), shape(player2Id)>> \in beats
                        THEN player1Id ELSE player2Id)]_vars

C13_Witness ==
  \E h \in Procs :
    /\ procs[h].kind = "move" /\ procs[h].pc = "gotResult"
    /\ procs[h].gameResult.finished
    /\ LET log == Log(procs[h].matchId) IN
       /\ Len(log) = 3
       /\ log[1].playerId = procs[h].match.player1Id /\ log[1].moveData = [move |-> "rock"]
       /\ log[2].playerId = procs[h].match.player1Id /\ log[2].moveData = [move |-> "paper"]
       /\ log[3].playerId = procs[h].match.player2Id /\ log[3].moveData = [move |-> "rock"]
       /\ procs[h].gameResult.gameState.moves[procs[h].match.player1Id] = "paper"
       /\ procs[h].gameResult.winnerId = procs[h].match.player1Id

\* C14: a finished rps match decided between two shapes of rock, paper and
\* scissors has the participant whose shape beats the other's as its winner (rock
\* beats scissors, paper beats rock, scissors beats paper), and is a draw with
\* no winner when the shapes are equal.
C14_BeatsTable ==
  \A i \in MatchIds :
    (matches[i].gameType = "rps" /\ matches[i].state = "finished") =>
      LET g == matches[i].gameData
          one == matches[i].player1Id
          two == CHOOSE k \in DOMAIN g.moves : k # one
          beats == {<<"rock", "scissors">>, <<"paper", "rock">>, <<"scissors", "paper">>}
      IN (g.moves[one] \in {"rock", "paper", "scissors"} /\
          g.moves[two] \in {"rock", "paper", "scissors"}) =>
           /\ g.moves[one] = g.moves[two] =>
                matches[i].winnerId = Null /\ g.result = "draw"
           /\ <<g.moves[one], g.moves[two]>> \in beats => matches[i].winnerId = one
           /\ <<g.moves[two], g.moves[one]>> \in beats => matches[i].winnerId = two

C14_Witness ==
  \E i \in MatchIds :
    /\ matches[i].gameType = "rps" /\ matches[i].state = "finished"
    /\ matches[i].gameData.moves[matches[i].player1Id] = "scissors"
    /\ \E two \in DOMAIN matches[i].gameData.moves :
         /\ two # matches[i].player1Id
         /\ matches[i].gameData.moves[two] = "rock"
         /\ matches[i].winnerId = two

\* C15: the log of a tictactoe match holds no move into a cell that an earlier
\* move of the log has filled.
C15_NoMoveIntoFilledCell ==
  \A i \in MatchIds :
    matches[i].gameType = "tictactoe" =>
      LET log == Log(i) IN
      \A n \in 1..Len(log) : \A k \in 1..(n - 1) :
        (Has(log[n].moveData, "position") /\ Has(log[k].moveData, "position")) =>
          log[n].moveData.position # log[k].moveData.position

\* C16: a tictactoe match is finished exactly when the marks on the board (a cell
\* belongs to the author of the first move that names it) fill one of the 3 rows,
\* 3 columns and 2 diagonals for one participant, who is then the winner, or
\* fill all 9 cells without such a line, and then the match has no winner.
C16_LineOrFullBoard ==
  \A i \in MatchIds :
    matches[i].gameType = "tictactoe" =>
      LET log == Log(i)
          owner == [c \in 0..8 |->
                      IF \E n \in 1..Len(log) : log[n].moveData.position = c
                      THEN log[CHOOSE n \in 1..Len(log) :
                                 /\ log[n].moveData.position = c
                                 /\ \A k \in 1..(n - 1) : log[k].moveData.position # c].playerId
                      ELSE Null]
          triples == {{0, 1, 2}, {3, 4, 5}, {6, 7, 8}, {0, 3, 6}, {1, 4, 7}, {2, 5, 8},
                      {0, 4, 8}, {2, 4, 6}}
          holds(u) == \E t \in triples : \A c \in t : owner[c] = u
          one == matches[i].player1Id
          two == matches[i].player2Id
          full == \A c \in 0..8 : owner[c] # Null
      IN /\ matches[i].state = "finished" <=> (holds(one) \/ holds(two) \/ full)
         /\ matches[i].state = "finished" =>
              /\ holds(one) => matches[i].winnerId = one
              /\ holds(two) => matches[i].winnerId = two
              /\ ~holds(one) /\ ~holds(two) => matches[i].winnerId = Null

C16_Witness ==
  \E i \in MatchIds :
    /\ matches[i].gameType = "tictactoe" /\ matches[i].state = "finished"
    /\ matches[i].winnerId = matches[i].player2Id
    /\ Len(Log(i)) = 5
    /\ [n \in 1..5 |-> Log(i)[n].moveData.position] = <<0, 4, 1, 5, 2>>
    /\ [n \in 1..5 |-> Log(i)[n].playerId] =
         <<matches[i].player2Id, matches[i].player1Id, matches[i].player2Id,
           matches[i].player1Id, matches[i].player2Id>>

C18_IllegalTakeChangesNothing ==
  [][\A i \in MatchIds :
       (matches[i].gameType = "sticks" /\ Len(moves'[i]) = Len(moves[i]) + 1) =>
         LET log == Log(i)
             after == SortedFrom(moves'[i], 1)
             taken[n \in 0..Len(after)] ==
               IF n = 0 THEN 0 ELSE taken[n - 1] + after[n].moveData.take
             count == 21 - taken[Len(log)]
             take == moves'[i][Len(moves'[i])].moveData.take
         IN (take = 0 \/ take > count \/ take \notin 1..3) =>
              /\ 21 - taken[Len(after)] = count
              /\ matches'[i].state = matches[i].state
              /\ Len(after) % 2 = Len(log) % 2]_vars

\* C19: in a hangman match every recorded move, a repeated letter included, has
\* the next sequence number and the turn of its author; while the match is in
\* progress the validator accepts the participant whose turn it is; and when the
\* last move of the log repeats a letter proposed earlier, the guessed letters
\* and the wrong-guess count of both participants are what they were before it.
C19_RepeatedLetterCountsOnce ==
  \A i \in MatchIds :
    (matches[i].gameType = "hangman" /\ Len(Log(i)) > 0) =>
      LET log == Log(i)
          n == Len(log)
          same(x, y) == x = y \/ {x, y} = {"a", "A"}
          before == processHangmanMove(matches[i], SubSeq(log, 1, n - 1),
                                       log[n].playerId, "-").gameState
          after == processHangmanMove(matches[i], log, log[n].playerId, "-").gameState
      IN /\ log[n].moveNumber = n
         /\ log[n].playerId = (IF n % 2 = 1 THEN matches[i].player2Id
                               ELSE matches[i].player1Id)
         /\ matches[i].state = "in_progress" =>
              Accepts(matches[i], log, IF n % 2 = 0 THEN matches[i].player2Id
                                       ELSE matches[i].player1Id)
         /\ (\E k \in 1..(n - 1) : same(log[k].moveData.letter, log[n].moveData.letter)) =>
              /\ after.guessedLetters = before.guessedLetters
              /\ after.player1WrongGuesses = before.player1WrongGuesses
              /\ after.player2WrongGuesses = before.player2WrongGuesses

C19_Witness ==
  \E i \in MatchIds :
    /\ matches[i].gameType = "hangman"
    /\ Len(Log(i)) = 3
    /\ Log(i)[1].moveData.letter = "A" /\ Log(i)[1].playerId = matches[i].player2Id
    /\ Log(i)[2].moveData.letter = "a" /\ Log(i)[2].playerId = matches[i].player1Id
    /\ Log(i)[3].moveData.letter = "a" /\ Log(i)[3].playerId = matches[i].player2Id
    /\ Log(i)[3].moveNumber = 3
    /\ matches[i].state = "in_progress"

C21_WordChosenOnce ==
  [][/\ \A i \in MatchIds :
          matches[i].gameType = "hangman" /\ matches[i].state # "waiting" =>
            matches'[i].gameData.word = matches[i].gameData.word
     /\ \A h \in Procs :
          procs'[h].pc = "gotResult" /\ procs'[h].match.gameType = "hangman" =>
            procs'[h].gameResult.gameState.word =
              matches'[procs'[h].matchId].gameData.word]_vars

\* C22: a make_move that is dropped because the match it read is absent or not in
\* progress, or because its author is not the one whose turn it is in an
\* alternating-turn game, ends there; no step of it changes anything but the
\* position of its own handler: no move, match, balance, transaction or
\* statistics row is written and no message is sent.
Dropped(p) ==
  /\ p.kind = "move"
  /\ \/ p.pc = "gotMatch" /\ p.match.state # "in_progress"
     \/ /\ p.pc = "gotMoves"
        /\ p.match.gameType # "rps"
        /\ p.playerId # (IF Len(p.moves) % 2 = 0 THEN p.match.player2Id
                         ELSE p.match.player1Id)

C22_RejectedMoveChangesNothing ==
  [][\A h \in Procs :
       /\ Dropped(procs[h]) /\ procs'[h] # procs[h] =>
            /\ procs'[h] = Idle
            /\ UNCHANGED <<storeVars, userMatches, responses, settleRuns, chanVars,
                           inbox, timers, aborted>>
       /\ procs'[h].kind = "move" /\ procs'[h].pc \in {"gotMatch", "gotMoves"}
          /\ procs'[h] # procs[h] =>
            UNCHANGED <<storeVars, userMatches, responses, settleRuns, chanVars,
                        inbox, timers, aborted>>]_vars

C22_Witness ==
  \E h \in Procs :
    /\ Dropped(procs[h])
    /\ procs[h].pc = "gotMoves"
    /\ Len(procs[h].moves) = 1
    /\ procs[h].playerId = procs[h].match.player2Id

\* C23: once a match is finished, no move is appended to its log, and its record
\* (state, winner, stored game state) stays as it is.
C23_FinishedIsFinal ==
  [][\A i \in MatchIds :
       matches[i].state = "finished" =>
         /\ moves'[i] = moves[i]
         /\ matches'[i] = matches[i]]_vars

\* C24: whenever no handler is running, the game state stored on the record of a
\* match that has moves is the state the engine computes from its whole log.
C24_StoredStateIsRecomputed ==
  NoHandlerInFlight =>
    \A i \in MatchIds :
      LET log == Log(i) IN
      Len(log) > 0 =>
        matches[i].gameData =
          processGameMove(matches[i], log, log[Len(log)].playerId, "-").gameState

\* C25: when no handler is running, each participant of a finished match whose
\* channel is open has received exactly one game_result for it: win when the
\* winner is the recipient, lose when it is the other participant, draw when
\* there is no winner.
C25_OneResultEach ==
  NoHandlerInFlight =>
    \A i \in MatchIds :
      matches[i].state = "finished" =>
        \A u \in {matches[i].player1Id, matches[i].player2Id} :
          CanReceive(u) =>
            LET results == SelectSeq(inbox[userConnections[u]],
                             LAMBDA m : m.type = "game_result" /\ m.matchId = i)
                winnerId == matches[i].winnerId
            IN /\ Len(results) = 1
               /\ results[1].winnerId = winnerId
               /\ results[1].result = "win" <=> winnerId = u
               /\ results[1].result = "lose" <=> winnerId \notin {u, Null}
               /\ results[1].result = "draw" <=> winnerId = Null

\* C26: when no handler is running, a participant whose channel was open all
\* along has received, for every number n, as many game_update messages with
\* moveNumber n as the log of the match holds moves numbered n (one per move), and
\* each names the next mover as currentPlayer: nobody in rps and after the
\* terminal move, else participant-two after an even and participant-one after
\* an odd number of moves.
C26_OneUpdatePerMove ==
  NoHandlerInFlight =>
    \A i \in MatchIds :
      \A u \in {matches[i].player1Id, matches[i].player2Id} \ {Null} :
        CanReceive(u) /\ userMatches[u] = i =>
          LET updates == SelectSeq(inbox[userConnections[u]],
                LAMBDA m : m.type = "game_update" /\ m.matchId = i /\ m.moveNumber > 0)
              last == Len(moves[i])
          IN /\ \A n \in 1..(last + 1) :
                  Len(SelectSeq(updates, LAMBDA m : m.moveNumber = n)) =
                    Len(SelectSeq(moves[i], LAMBDA m : m.moveNumber = n))
             /\ \A k \in 1..Len(updates) :
                  updates[k].currentPlayer =
                    (IF \/ matches[i].gameType = "rps"
                        \/ matches[i].state = "finished" /\ updates[k].moveNumber = last
                     THEN Null
                     ELSE IF updates[k].moveNumber % 2 = 0 THEN matches[i].player2Id
                          ELSE matches[i].player1Id)

\* C27: of a make_move cycle that ended in the catch block after its move was
\* stored, no inbox holds a game_update with the number of that move, and, when
\* that move is the last of the log, no inbox holds a game_result of the match.
C27_AbortSendsNothing ==
  \A e \in aborted :
    e.at \notin {"gotMatch", "gotMoves"} =>
      \A c \in DOMAIN inbox :
        \A k \in 1..Len(inbox[c]) :
          LET m == inbox[c][k] IN
          /\ ~ (m.type = "game_update" /\ m.matchId = e.matchId
                /\ m.moveNumber = e.moveNumber)
          /\ ~ (m.type = "game_result" /\ m.matchId = e.matchId
                /\ e.moveNumber = Len(moves[e.matchId]))

\* C28: once the close handler of a connection has run, the connection has no
\* socket entry, no user entry and its user has no connection entry and no
\* current-match entry; and nothing more is written to its socket.
C28_ClosedIsPurged ==
  [][\A c \in Players :
       /\ readyState'[c] = "CLOSED" =>
            /\ c \notin connectedClients'
            /\ connectionUsers'[c] = Null
            /\ userConnections'[c] = Null
            /\ userMatches'[c] = Null
       /\ readyState[c] = "CLOSED" => inbox'[c] = inbox[c]]_vars

\* C29: the step that answers a join writes a match_found of the match to the
\* socket of its creator and to the socket of its joiner, whenever that socket is
\* open.
C29_MatchFoundToBoth ==
  [][\A h \in Procs :
       procs[h].kind = "match" /\ procs[h].pc = "updated" /\ procs'[h] = Idle =>
         \A u \in {procs[h].match.player1Id, procs[h].playerId} :
           CanReceive(u) =>
             inbox'[userConnections[u]] =
               Append(inbox[userConnections[u]], MatchFound(procs[h].match.id))]_vars

\* C30: totalGames, totalWins and totalLosses of a player never decrease, and
\* when no handler is running they count the settled matches of the player, the
\* settled matches the player won and the settled matches the other participant
\* won.
C30_StatsCountSettlements ==
  [][\A u \in Players :
       /\ stats'[u].totalGames >= stats[u].totalGames
       /\ stats'[u].totalWins >= stats[u].totalWins
       /\ stats'[u].totalLosses >= stats[u].totalLosses
       /\ (\A h \in Procs : procs'[h].pc = "idle") =>
            LET played == {i \in 1..Len(matches') :
                             /\ settleRuns'[i] = 1
                             /\ u \in {matches'[i].player1Id, matches'[i].player2Id}}
                won == {i \in played : matches'[i].winnerId = u}
                lost == {i \in played : matches'[i].winnerId \notin {u, Null}}
            IN /\ stats'[u].totalGames = Cardinality(played)
               /\ stats'[u].totalWins = Cardinality(won)
               /\ stats'[u].totalLosses = Cardinality(lost)]_vars

\* C31: at no time are two make_move handlers of the same match both between
\* their first repository read and their return.
C31_OneCyclePerMatch ==
  \A g, h \in Procs :
    /\ g # h
    /\ procs[g].kind = "move"
    /\ procs[h].kind = "move"
    => procs[g].matchId # procs[h].matchId

\* C32: once a game_result of a match has been written to a connection, the match
\* record is finished with the winner the message names, both participants have
\* their settlement on record (transaction, balance, statistics), and a
\* game_update of that match numbered with the length of its log was written to
\* the same connection earlier; no game_update of a match is written to a
\* connection that already holds a game_result of it.
C32_ResultComesLast ==
  [][\A c \in Players :
       \A k \in (Len(inbox[c]) + 1)..Len(inbox'[c]) :
         LET message == inbox'[c][k]
             i == message.matchId
             earlier == SubSeq(inbox'[c], 1, k - 1)
         IN /\ message.type = "game_result" =>
                 /\ matches'[i].state = "finished"
                 /\ matches'[i].winnerId = message.winnerId
                 /\ \A u \in {matches'[i].player1Id, matches'[i].player2Id} :
                      /\ transactions'[u] # <<>>
                      /\ users'[u] # InitialBalance
                      /\ stats'[u].totalGames >= 1
                 /\ \E j \in 1..Len(earlier) :
                      /\ earlier[j].type = "game_update"
                      /\ earlier[j].matchId = i
                      /\ earlier[j].moveNumber = Len(moves'[i])
            /\ message.type = "game_update" =>
                 \A j \in 1..Len(earlier) :
                   ~(earlier[j].type = "game_result" /\ earlier[j].matchId = i)]_vars

\* C33: when no handler is running, the two participants of a finished match
\* (who have played no other match) hold together no more than they held before
\* it: the sum of their balance changes is at most zero.
C33_NoMoneyCreated ==
  NoHandlerInFlight =>
    \A i \in MatchIds :
      matches[i].state = "finished" =>
        (users[matches[i].player1Id] - InitialBalance)
          + (users[matches[i].player2Id] - InitialBalance) <= 0

\* C34: every move stored in the log of a match names one of the two participants
\* of that match as its author.
C34_MovesByParticipants ==
  \A i \in MatchIds :
    \A k \in 1..Len(moves[i]) :
      moves[i][k].playerId \in {matches[i].player1Id, matches[i].player2Id}

\* C35: every match_found and game_update a connection has been sent is about a
\* match the user of that connection is a participant of.
C35_MatchMessagesToParticipants ==
  \A c \in Players :
    \A k \in 1..Len(inbox[c]) :
      inbox[c][k].type \in {"match_found", "game_update"} =>
        connectionUsers[c] \in {matches[inbox[c][k].matchId].player1Id,
                                matches[inbox[c][k].matchId].player2Id}

\* C36: the recorded winner of a finished rock-paper-scissors match is a
\* participant whose latest recorded shape is rock, paper or scissors.
C36_WinnerPlayedAShape ==
  \A i \in MatchIds :
    /\ matches[i].gameType = "rps"
    /\ matches[i].state = "finished"
    /\ matches[i].winnerId # Null
    => LET own == SelectSeq(moves[i], LAMBDA m : m.playerId = matches[i].winnerId)
       IN /\ own # <<>>
          /\ own[Len(own)].moveData.move \in {"rock", "paper", "scissors"}

\* C37: a player is a participant of at most one match that is not finished, and
\* when no handler is running the current-match entry of a player who has one
\* names that match.
C37_OneOpenMatchEach ==
  \A u \in Players :
    LET open == {i \in MatchIds : /\ matches[i].state # "finished"
                                  /\ u \in {matches[i].player1Id, matches[i].player2Id}}
    IN /\ Cardinality(open) <= 1
       /\ NoHandlerInFlight /\ open # {} /\ userMatches[u] # Null
            => userMatches[u] \in open

\* C38: a match that is waiting or in progress has no recorded winner, and the
\* recorded winner of a finished match is nobody (a draw) or one of its two
\* participants.
C38_WinnerIsParticipant ==
  \A i \in MatchIds :
    /\ matches[i].state \in {"waiting", "in_progress"} => matches[i].winnerId = Null
    /\ matches[i].state = "finished" =>
         matches[i].winnerId \in {Null, matches[i].player1Id, matches[i].player2Id}

\* C39: no user's balance is ever below zero.
C39_BalanceNeverNegative == \A u \in Players : users[u] >= 0

\* C40: in a sticks match whose accepted moves all take 1 or 3, the log never
\* holds more than 21 moves, the match is finished as soon as the takes add up to
\* 21 or more, and the count the engine reports after each accepted move lies in
\* 0..21 and is lower than the count reported before that move (21 at the start);
\* the finished record stores the count 0.
C40_SticksRunDown ==
  \A i \in MatchIds :
    matches[i].gameType = "sticks" =>
      LET log == Log(i)
          reported(n) ==
            IF n = 0 THEN SticksStart
            ELSE processSticksMove(matches[i], SubSeq(log, 1, n),
                                   log[n].playerId).gameState.sticks
      IN /\ Len(log) <= 21
         /\ \A n \in 1..Len(log) :
              /\ reported(n) \in 0..21
              /\ reported(n) < reported(n - 1)
         /\ TakenBy(log, Len(log)) >= 21 <=> matches[i].state = "finished"
         /\ matches[i].state = "finished" => matches[i].gameData.sticks = 0

C40_Witness ==
  \E i \in MatchIds :
    /\ matches[i].gameType = "sticks"
    /\ matches[i].state = "finished"
    /\ Len(moves[i]) = 21

====
